---- MODULE Spec2Model ----
(***************************************************************************)
(* A model of libjuice's src/addr.c: the family-dispatched accessors of a  *)
(* socket address, its classification, the in-place IPv4-mapped            *)
(* conversions, equality, and the getaddrinfo adapter addr_resolve.        *)
(*                                                                         *)
(* A socket address is modelled as its memory: the sequence of its first   *)
(* Sin6Len bytes, with the layouts of struct sockaddr_in and struct        *)
(* sockaddr_in6 laid over it exactly as the casts of the source do.  The   *)
(* byte at C offset k is element k + 1 of the sequence, and the Off*       *)
(* definitions are positions in it.  The sa_family field (two bytes) is    *)
(* held as one cell at its first position, whose value is the family       *)
(* number; the second is its padding.  The port field is stored in the     *)
(* byte order of the host, which is a variable of the model, so that       *)
(* htons and ntohs are real conversions.                                   *)
(***************************************************************************)
EXTENDS Integers, Sequences, FiniteSets, TLC

VARIABLES hostLE,    \* TRUE on a little-endian host
          sa,        \* the address record the accessors work on
          len,       \* the caller's socklen_t that goes with sa
          pre,       \* sa and len as they were before the last call
          orig,      \* sa and len as the caller first built them
          calls,     \* the calls made so far: <<[op, arg, ret], ...>>
          log,       \* the warnings the last call emitted through JLOG_WARN
          sb,        \* the second record of addr_is_equal
          records,   \* addr_resolve: the caller's array of addr_record_t
          rpre,      \* addr_resolve: that array before the last call
          heap,      \* addr_resolve: the addrinfo lists of the resolver
          rlast      \* addr_resolve: the last call, its inputs and result

vars ==
    <<hostLE, sa, len, pre, orig, calls, log, sb, records, rpre, heap, rlast>>

(***************************************************************************)
(* Platform constants and structure layouts.                               *)
(***************************************************************************)
AF_UNSPEC == 0
AF_UNIX == 1
AF_INET == 2
AF_INET6 == 10

SinLen == 16        \* sizeof(struct sockaddr_in)
Sin6Len == 28       \* sizeof(struct sockaddr_in6)
StorageLen == 128   \* sizeof(struct sockaddr_storage)

OffFamily == 1      \* sa_family / sin_family / sin6_family (C offset 0)
OffPort == 3        \* sin_port and sin6_port (C offset 2)
OffSinAddr == 5     \* sin_addr (C offset 4)
OffSin6Addr == 9    \* sin6_addr (C offset 8)

Offsets == 1 .. Sin6Len

(***************************************************************************)
(* Memory primitives.                                                      *)
(***************************************************************************)
memset(m, off, val, n) ==
    [i \in DOMAIN m |-> IF i >= off /\ i < off + n THEN val ELSE m[i]]

memcpy(dst, doff, src, soff, n) ==
    [i \in DOMAIN dst |->
        IF i >= doff /\ i < doff + n THEN src[soff + (i - doff)] ELSE dst[i]]

memcmp(a, aoff, b, boff, n) ==
    IF \A i \in 0 .. (n - 1) : a[aoff + i] = b[boff + i] THEN 0 ELSE 1

\* A uint16_t object read from / written to memory in host byte order.
LoadU16(m, off, le) ==
    IF le THEN m[off] + 256 * m[off + 1] ELSE 256 * m[off] + m[off + 1]

StoreU16(m, off, v, le) ==
    IF le THEN [m EXCEPT ![off] = v % 256, ![off + 1] = v \div 256]
          ELSE [m EXCEPT ![off] = v \div 256, ![off + 1] = v % 256]

Swap16(v) == (v % 256) * 256 + (v \div 256)

htons(v, le) == IF le THEN Swap16(v) ELSE v

ntohs(v, le) == IF le THEN Swap16(v) ELSE v

(***************************************************************************)
(* The IN6_IS_ADDR_* tests of <netinet/in.h>, on the 16 bytes at off.      *)
(***************************************************************************)
IN6_IS_ADDR_LOOPBACK(m, off) ==
    /\ \A i \in 0 .. 14 : m[off + i] = 0
    /\ m[off + 15] = 1

IN6_IS_ADDR_LINKLOCAL(m, off) ==
    /\ m[off] = 254
    /\ m[off + 1] \div 64 = 2          \* (b[1] & 0xc0) == 0x80

IN6_IS_ADDR_V4MAPPED(m, off) ==
    /\ \A i \in 0 .. 9 : m[off + i] = 0
    /\ m[off + 10] = 255
    /\ m[off + 11] = 255

(***************************************************************************)
(* Family-dispatch accessors.                                              *)
(***************************************************************************)
\* The default: branch of the accessors' switch, which warns.
UnknownFamily(m) == m[OffFamily] # AF_INET /\ m[OffFamily] # AF_INET6

addr_get_len(m) ==
    CASE m[OffFamily] = AF_INET -> SinLen
      [] m[OffFamily] = AF_INET6 -> Sin6Len
      [] OTHER -> 0

\* The port field returned as stored, without ntohs.
addr_get_port_raw(m, le) ==
    CASE m[OffFamily] = AF_INET -> LoadU16(m, OffPort, le)
      [] m[OffFamily] = AF_INET6 -> LoadU16(m, OffPort, le)
      [] OTHER -> 0

addr_get_port(m, le) ==
    CASE m[OffFamily] = AF_INET -> ntohs(LoadU16(m, OffPort, le), le)
      [] m[OffFamily] = AF_INET6 -> ntohs(LoadU16(m, OffPort, le), le)
      [] OTHER -> 0

\* The port written whatever the family.
addr_set_port_any(m, port, le) ==
    [ret |-> 0, sa |-> StoreU16(m, OffPort, htons(port, le), le)]

addr_set_port(m, port, le) ==
    CASE m[OffFamily] = AF_INET ->
            [ret |-> 0, sa |-> StoreU16(m, OffPort, htons(port, le), le)]
      [] m[OffFamily] = AF_INET6 ->
            [ret |-> 0, sa |-> StoreU16(m, OffPort, htons(port, le), le)]
      [] OTHER -> [ret |-> -1, sa |-> m]

(***************************************************************************)
(* Locality and temporariness.                                             *)
(***************************************************************************)
\* The embedded IPv4 address read at byte 8 of the address, not 12.
addr_is_local_mapped8(m) ==
    CASE m[OffFamily] = AF_INET ->
            \/ m[OffSinAddr] = 127
            \/ m[OffSinAddr] = 169 /\ m[OffSinAddr + 1] = 254
      [] m[OffFamily] = AF_INET6 ->
            IF IN6_IS_ADDR_LOOPBACK(m, OffSin6Addr) THEN TRUE
            ELSE IF IN6_IS_ADDR_LINKLOCAL(m, OffSin6Addr) THEN TRUE
            ELSE IF IN6_IS_ADDR_V4MAPPED(m, OffSin6Addr)
                 THEN \/ m[OffSin6Addr + 8] = 127
                      \/ m[OffSin6Addr + 8] = 169 /\ m[OffSin6Addr + 9] = 254
                 ELSE FALSE
      [] OTHER -> FALSE

addr_is_local(m) ==
    CASE m[OffFamily] = AF_INET ->
            \/ m[OffSinAddr] = 127
            \/ m[OffSinAddr] = 169 /\ m[OffSinAddr + 1] = 254
      [] m[OffFamily] = AF_INET6 ->
            IF IN6_IS_ADDR_LOOPBACK(m, OffSin6Addr) THEN TRUE
            ELSE IF IN6_IS_ADDR_LINKLOCAL(m, OffSin6Addr) THEN TRUE
            ELSE IF IN6_IS_ADDR_V4MAPPED(m, OffSin6Addr)
                 THEN \/ m[OffSin6Addr + 12] = 127
                      \/ m[OffSin6Addr + 12] = 169 /\ m[OffSin6Addr + 13] = 254
                 ELSE FALSE
      [] OTHER -> FALSE

\* The bit test alone, without the addr_is_local test.
addr_is_temp_inet6_nolocal(m) ==
    IF m[OffFamily] # AF_INET6 THEN FALSE
    ELSE (m[OffSin6Addr + 8] \div 2) % 2 = 0

addr_is_temp_inet6(m) ==
    IF m[OffFamily] # AF_INET6 THEN FALSE
    ELSE IF addr_is_local(m) THEN FALSE
    ELSE (m[OffSin6Addr + 8] \div 2) % 2 = 0     \* (b[8] & 0x02) ? false : true

(***************************************************************************)
(* IPv4-mapped IPv6 conversion, in place.                                  *)
(***************************************************************************)
addr_unmap_inet6_v4mapped(m, l) ==
    IF m[OffFamily] # AF_INET6 THEN [ret |-> FALSE, sa |-> m, len |-> l]
    ELSE IF ~IN6_IS_ADDR_V4MAPPED(m, OffSin6Addr)
    THEN [ret |-> FALSE, sa |-> m, len |-> l]
    ELSE LET copy == m                                   \* copy = *sin6
             z == memset(m, OffFamily, 0, SinLen)
             f == [z EXCEPT ![OffFamily] = AF_INET]
             p == memcpy(f, OffPort, copy, OffPort, 2)
             a == memcpy(p, OffSinAddr, copy, OffSin6Addr + 12, 4)
         IN  [ret |-> TRUE, sa |-> a, len |-> SinLen]

\* The conversion without the snapshot: the fields are read back from the
\* storage the memset has just cleared.
addr_map_inet6_v4mapped_nosnapshot(m, l) ==
    IF m[OffFamily] # AF_INET THEN [ret |-> FALSE, sa |-> m, len |-> l]
    ELSE LET z == memset(m, OffFamily, 0, Sin6Len)
             f == [z EXCEPT ![OffFamily] = AF_INET6]
             p == memcpy(f, OffPort, z, OffPort, 2)
             b0 == memset(p, OffSin6Addr, 0, 10)
             b1 == memset(b0, OffSin6Addr + 10, 255, 2)
             a == memcpy(b1, OffSin6Addr + 12, z, OffSinAddr, 4)
         IN  [ret |-> TRUE, sa |-> a, len |-> Sin6Len]

addr_map_inet6_v4mapped(m, l) ==
    IF m[OffFamily] # AF_INET THEN [ret |-> FALSE, sa |-> m, len |-> l]
    ELSE LET copy == m                                   \* copy = *sin
             z == memset(m, OffFamily, 0, Sin6Len)
             f == [z EXCEPT ![OffFamily] = AF_INET6]
             p == memcpy(f, OffPort, copy, OffPort, 2)
             b0 == memset(p, OffSin6Addr, 0, 10)
             b1 == memset(b0, OffSin6Addr + 10, 255, 2)
             a == memcpy(b1, OffSin6Addr + 12, copy, OffSinAddr, 4)
         IN  [ret |-> TRUE, sa |-> a, len |-> Sin6Len]

(***************************************************************************)
(* Equality.                                                               *)
(***************************************************************************)
\* The IPv6 case without the comparison of the ports.
addr_is_equal_noport6(a, b, compare_ports, le) ==
    IF a[OffFamily] # b[OffFamily] THEN FALSE
    ELSE CASE a[OffFamily] = AF_INET ->
                IF memcmp(a, OffSinAddr, b, OffSinAddr, 4) # 0 THEN FALSE
                ELSE IF compare_ports
                        /\ LoadU16(a, OffPort, le) # LoadU16(b, OffPort, le)
                THEN FALSE
                ELSE TRUE
           [] a[OffFamily] = AF_INET6 ->
                IF memcmp(a, OffSin6Addr, b, OffSin6Addr, 16) # 0 THEN FALSE
                ELSE TRUE
           [] OTHER -> FALSE

addr_is_equal(a, b, compare_ports, le) ==
    IF a[OffFamily] # b[OffFamily] THEN FALSE
    ELSE CASE a[OffFamily] = AF_INET ->
                IF memcmp(a, OffSinAddr, b, OffSinAddr, 4) # 0 THEN FALSE
                ELSE IF compare_ports
                        /\ LoadU16(a, OffPort, le) # LoadU16(b, OffPort, le)
                THEN FALSE
                ELSE TRUE
           [] a[OffFamily] = AF_INET6 ->
                IF memcmp(a, OffSin6Addr, b, OffSin6Addr, 16) # 0 THEN FALSE
                ELSE IF compare_ports
                        /\ LoadU16(a, OffPort, le) # LoadU16(b, OffPort, le)
                THEN FALSE
                ELSE TRUE
           [] OTHER -> FALSE

(***************************************************************************)
(* Bounds and the inputs the callers are drawn from.                       *)
(***************************************************************************)
MaxCalls == 2       \* calls made on one record

Ports == {0, 1, 258, 65535}

Fills == {0, 171}   \* what the padding, flowinfo and scope id bytes hold

V4Addrs ==
    { <<127, 0, 0, 1>>, <<127, 255, 3, 4>>, <<169, 254, 1, 1>>,
      <<169, 253, 1, 1>>, <<168, 254, 1, 1>>, <<254, 169, 0, 0>>,
      <<8, 8, 8, 8>>, <<0, 127, 0, 1>>, <<0, 0, 0, 0>> }

\* 16 address bytes, zero but for the <<index, value>> pairs given.
A6(pairs) ==
    [i \in 0 .. 15 |->
        IF \E q \in pairs : q[1] = i
        THEN (CHOOSE q \in pairs : q[1] = i)[2] ELSE 0]

Mapped(a4) ==
    [i \in 0 .. 15 |-> IF i < 10 THEN 0 ELSE IF i < 12 THEN 255 ELSE a4[i - 11]]

V6Addrs ==
    { A6({}),                                        \* ::
      A6({<<15, 1>>}),                               \* ::1
      A6({<<15, 2>>}),                               \* ::2
      A6({<<0, 1>>, <<15, 1>>}),                     \* 100::1
      A6({<<8, 2>>, <<15, 1>>}),                     \* ::200:0:0:1
      A6({<<0, 254>>, <<1, 128>>, <<15, 1>>}),       \* fe80::1
      A6({<<0, 254>>, <<1, 128>>, <<8, 2>>}),        \* fe80::200:0:0:0
      A6({<<0, 254>>, <<1, 191>>, <<15, 1>>}),       \* febf::1
      A6({<<0, 254>>, <<1, 192>>, <<15, 1>>}),       \* fec0::1
      A6({<<0, 254>>, <<1, 127>>, <<15, 1>>}),       \* fe7f::1
      A6({<<0, 255>>, <<1, 128>>, <<15, 1>>}),       \* ff80::1
      A6({<<0, 128>>, <<1, 254>>}),                  \* 80fe::
      A6({<<12, 127>>, <<15, 1>>}),                  \* ::127.0.0.1
      A6({<<10, 255>>, <<11, 254>>, <<12, 127>>, <<15, 1>>}),
      A6({<<0, 1>>, <<10, 255>>, <<11, 255>>, <<12, 127>>, <<15, 1>>}),
      A6({<<8, 127>>, <<10, 255>>, <<11, 255>>, <<12, 8>>}),
      A6({<<0, 32>>, <<1, 1>>, <<2, 13>>, <<3, 184>>, <<15, 1>>}),
      A6({<<0, 32>>, <<1, 1>>, <<8, 2>>, <<15, 1>>}),
      A6({<<0, 32>>, <<1, 1>>, <<8, 253>>, <<9, 2>>}),
      A6({<<0, 32>>, <<1, 1>>, <<8, 255>>, <<15, 7>>}),
      A6({<<0, 32>>, <<1, 1>>, <<7, 2>>, <<8, 1>>, <<9, 2>>}),
      A6({<<0, 32>>, <<1, 1>>, <<8, 3>>, <<12, 127>>}) }
    \cup { Mapped(a4) : a4 \in V4Addrs }

\* A struct sockaddr_in in the caller's storage.
MkSin(a4, port, fill) ==
    [i \in Offsets |->
        CASE i = OffFamily -> AF_INET
          [] i = OffFamily + 1 -> 0
          [] i = OffPort -> port \div 256
          [] i = OffPort + 1 -> port % 256
          [] i >= OffSinAddr /\ i < OffSinAddr + 4 -> a4[i - OffSinAddr + 1]
          [] OTHER -> fill]

\* A struct sockaddr_in6 in the caller's storage.
MkSin6(a16, port, fill) ==
    [i \in Offsets |->
        CASE i = OffFamily -> AF_INET6
          [] i = OffFamily + 1 -> 0
          [] i = OffPort -> port \div 256
          [] i = OffPort + 1 -> port % 256
          [] i >= OffSin6Addr /\ i < OffSin6Addr + 16 -> a16[i - OffSin6Addr]
          [] OTHER -> fill]

Sin4Records == { MkSin(a, p, f) : a \in V4Addrs, p \in Ports, f \in Fills }

Sin6Records == { MkSin6(a, p, f) : a \in V6Addrs, p \in Ports, f \in Fills }

\* Records of a family the library does not know, with the bytes of a known one.
OtherRecords ==
    { [r EXCEPT ![OffFamily] = fam] :
        fam \in {AF_UNSPEC, AF_UNIX},
        r \in { MkSin(<<127, 0, 0, 1>>, 258, 0),
                MkSin6(Mapped(<<127, 0, 0, 1>>), 258, 0),
                MkSin6(A6({<<0, 254>>, <<1, 128>>, <<15, 1>>}), 1, 171) } }

InitRecords == Sin4Records \cup Sin6Records \cup OtherRecords

\* The length a caller keeps beside a record it built.
InitLen(m) ==
    CASE m[OffFamily] = AF_INET -> SinLen
      [] m[OffFamily] = AF_INET6 -> Sin6Len
      [] OTHER -> StorageLen

WarnUnknown == "Unknown address family"
WarnResolve == "Address resolution failed"

\* The variables of the accessors, idle.
NoRecord == <<>>

\* The variables of addr_resolve, idle.
NoRecords == <<>>
NoHeap == <<>>
NoCall == [called |-> FALSE, n |-> 0]

(***************************************************************************)
(* Spec: one caller, one record, the accessors applied to it in any order. *)
(***************************************************************************)
Init ==
    /\ hostLE \in BOOLEAN
    /\ sa \in InitRecords
    /\ len = InitLen(sa)
    /\ pre = [sa |-> sa, len |-> len]
    /\ orig = [sa |-> sa, len |-> len]
    /\ calls = <<>>
    /\ log = <<>>
    /\ sb = NoRecord
    /\ records = NoRecords
    /\ rpre = NoRecords
    /\ heap = NoHeap
    /\ rlast = NoCall

Called(op, arg, ret) ==
    /\ Len(calls) < MaxCalls
    /\ calls' = Append(calls, [op |-> op, arg |-> arg, ret |-> ret])
    /\ pre' = [sa |-> sa, len |-> len]
    /\ UNCHANGED <<hostLE, orig, sb, records, rpre, heap, rlast>>

Warned(cond) == log' = IF cond THEN <<WarnUnknown>> ELSE <<>>

GetLen ==
    /\ Called("get_len", 0, addr_get_len(sa))
    /\ Warned(UnknownFamily(sa))
    /\ UNCHANGED <<sa, len>>

GetPort ==
    /\ Called("get_port", 0, addr_get_port(sa, hostLE))
    /\ Warned(UnknownFamily(sa))
    /\ UNCHANGED <<sa, len>>

SetPort ==
    \E port \in Ports :
        LET r == addr_set_port(sa, port, hostLE) IN
        /\ Called("set_port", port, r.ret)
        /\ Warned(UnknownFamily(sa))
        /\ sa' = r.sa
        /\ UNCHANGED len

IsLocal ==
    /\ Called("is_local", 0, addr_is_local(sa))
    /\ Warned(FALSE)
    /\ UNCHANGED <<sa, len>>

IsTemp ==
    /\ Called("is_temp", 0, addr_is_temp_inet6(sa))
    /\ Warned(FALSE)
    /\ UNCHANGED <<sa, len>>

Unmap ==
    LET r == addr_unmap_inet6_v4mapped(sa, len) IN
    /\ Called("unmap", 0, r.ret)
    /\ sa' = r.sa
    /\ len' = r.len
    /\ Warned(FALSE)

Map ==
    LET r == addr_map_inet6_v4mapped(sa, len) IN
    /\ Called("map", 0, r.ret)
    /\ sa' = r.sa
    /\ len' = r.len
    /\ Warned(FALSE)

Next == GetLen \/ GetPort \/ SetPort \/ IsLocal \/ IsTemp \/ Unmap \/ Map

Spec == Init /\ [][Next]_vars

(***************************************************************************)
(* What the properties below speak of, stated on the bytes of a record     *)
(* without use of the operations.                                          *)
(***************************************************************************)
NCalls == Len(calls)

Last == calls[NCalls]

IsV4(m) == m[OffFamily] = AF_INET

IsV6(m) == m[OffFamily] = AF_INET6

\* The port a record holds: its two port bytes, read most significant first.
WirePort(m) == 256 * m[OffPort] + m[OffPort + 1]

V4Bytes(m) == [i \in 0 .. 3 |-> m[OffSinAddr + i]]

V6Bytes(m) == [i \in 0 .. 15 |-> m[OffSin6Addr + i]]

\* ::ffff:a.b.c.d : 10 zero bytes, 0xFF 0xFF, 4 bytes.
HasMappedAddress(m) ==
    /\ IsV6(m)
    /\ \A i \in 0 .. 9 : V6Bytes(m)[i] = 0
    /\ V6Bytes(m)[10] = 255 /\ V6Bytes(m)[11] = 255

LocalV4Rule(b0, b1) == b0 = 127 \/ (b0 = 169 /\ b1 = 254)

\* ::1, fe80::/10 (the first ten bits are 1111111010), or a mapped local IPv4.
LocalRule(m) ==
    CASE IsV4(m) -> LocalV4Rule(V4Bytes(m)[0], V4Bytes(m)[1])
      [] IsV6(m) ->
            \/ V6Bytes(m) = [i \in 0 .. 15 |-> IF i = 15 THEN 1 ELSE 0]
            \/ 4 * V6Bytes(m)[0] + (V6Bytes(m)[1] \div 64) = 1018
            \/ /\ HasMappedAddress(m)
               /\ LocalV4Rule(V6Bytes(m)[12], V6Bytes(m)[13])
      [] OTHER -> FALSE

Unchanged == sa = pre.sa /\ len = pre.len

(***************************************************************************)
(* C1.  Round trip of the in-place conversions.  For an IPv4 record,       *)
(* addr_map_inet6_v4mapped then addr_unmap_inet6_v4mapped both return true *)
(* and leave an IPv4 record with the original 4 address bytes, the         *)
(* original port and the IPv4 structure size as length; for an IPv6 record *)
(* with an IPv4-mapped address, unmap then map both return true and        *)
(* restore the 16 address bytes, the port and the IPv6 structure size.     *)
(***************************************************************************)
C1_RoundTrip ==
    /\ ( /\ NCalls = 2 /\ calls[1].op = "map" /\ calls[2].op = "unmap"
         /\ IsV4(orig.sa) )
       => /\ calls[1].ret /\ calls[2].ret
          /\ IsV4(sa)
          /\ V4Bytes(sa) = V4Bytes(orig.sa)
          /\ WirePort(sa) = WirePort(orig.sa)
          /\ len = SinLen
    /\ ( /\ NCalls = 2 /\ calls[1].op = "unmap" /\ calls[2].op = "map"
         /\ HasMappedAddress(orig.sa) )
       => /\ calls[1].ret /\ calls[2].ret
          /\ IsV6(sa)
          /\ V6Bytes(sa) = V6Bytes(orig.sa)
          /\ WirePort(sa) = WirePort(orig.sa)
          /\ len = Sin6Len

C1_Witness ==
    /\ NCalls = 2 /\ calls[1].op = "map" /\ calls[2].op = "unmap"
    /\ IsV4(orig.sa)
    /\ V4Bytes(orig.sa) = [i \in 0 .. 3 |-> <<169, 254, 1, 1>>[i + 1]]
    /\ WirePort(orig.sa) = 258
    /\ orig.sa[OffSinAddr + 4] = 171        \* sin_zero is not clean
    /\ calls[2].ret
    /\ IsV4(sa)

(***************************************************************************)
(* C7.  As amended: for every record of a supported family (IPv4 or IPv6)  *)
(* and every port p, addr_set_port(record, p) succeeds and addr_get_port   *)
(* then returns p in host byte order; on a record of any other family      *)
(* addr_set_port fails and addr_get_port returns 0.                        *)
(***************************************************************************)
SetThenGet ==
    /\ NCalls >= 2
    /\ calls[NCalls - 1].op = "set_port"
    /\ Last.op = "get_port"

C7_SetGetPort ==
    SetThenGet =>
        IF IsV4(sa) \/ IsV6(sa)
        THEN calls[NCalls - 1].ret = 0 /\ Last.ret = calls[NCalls - 1].arg
        ELSE calls[NCalls - 1].ret = -1 /\ Last.ret = 0

C7_Witness ==
    /\ SetThenGet
    /\ IsV6(sa)
    /\ hostLE
    /\ WirePort(orig.sa) = 65535
    /\ calls[NCalls - 1].arg = 1
    /\ Last.ret = 1

\* C7 as the claim states it: for every record family, addr_get_port after
\* addr_set_port(record, p) returns p.
C7_AnyFamily == SetThenGet => Last.ret = calls[NCalls - 1].arg

(***************************************************************************)
(* C8.  addr_is_temp_inet6 is false for every record that is not IPv6 and  *)
(* for every record addr_is_local accepts; for every other IPv6 record it  *)
(* is true exactly when bit 0x02 of address byte 8 is clear.               *)
(***************************************************************************)
C8_TempInet6 ==
    (NCalls >= 1 /\ Last.op = "is_temp") =>
        Last.ret = ( /\ IsV6(pre.sa)
                     /\ ~addr_is_local(pre.sa)
                     /\ (V6Bytes(pre.sa)[8] \div 2) % 2 = 0 )

C8_Witness ==
    /\ NCalls >= 1 /\ Last.op = "is_temp"
    /\ IsV6(pre.sa)
    /\ ~LocalRule(pre.sa)
    /\ V6Bytes(pre.sa)[8] = 253
    /\ V6Bytes(pre.sa)[9] = 2
    /\ Last.ret

(***************************************************************************)
(* C9.  addr_is_local is true for an IPv4 record exactly when its first    *)
(* octet is 127 or its first two are 169.254; for an IPv6 record exactly   *)
(* when the address is ::1, in fe80::/10, or IPv4-mapped with a local      *)
(* embedded IPv4 address; false for any other family.  An IPv4 record and  *)
(* its IPv4-mapped image get the same answer.                              *)
(***************************************************************************)
C9_IsLocal ==
    /\ (NCalls >= 1 /\ Last.op = "is_local") => Last.ret = LocalRule(pre.sa)
    /\ ( /\ NCalls = 2 /\ calls[1].op = "map" /\ calls[2].op = "is_local"
         /\ IsV4(orig.sa) )
       => calls[2].ret = LocalV4Rule(V4Bytes(orig.sa)[0], V4Bytes(orig.sa)[1])

C9_Witness ==
    /\ NCalls = 2 /\ calls[1].op = "map" /\ calls[2].op = "is_local"
    /\ IsV4(orig.sa)
    /\ V4Bytes(orig.sa)[0] = 169 /\ V4Bytes(orig.sa)[1] = 254
    /\ HasMappedAddress(sa)
    /\ calls[2].ret

(***************************************************************************)
(* C10.  A mutating operation that reports failure changes nothing:        *)
(* addr_set_port on an unrecognized family fails and leaves the record as  *)
(* it was; addr_unmap_inet6_v4mapped on a record that is not IPv6 or not   *)
(* IPv4-mapped, and addr_map_inet6_v4mapped on a record that is not IPv4,  *)
(* return false and leave record and length as they were.  Each succeeds   *)
(* whenever its precondition holds.                                        *)
(***************************************************************************)
C10_FailureFrame ==
    /\ (NCalls >= 1 /\ Last.op = "set_port") =>
          IF IsV4(pre.sa) \/ IsV6(pre.sa)
          THEN Last.ret = 0
          ELSE Last.ret = -1 /\ Unchanged
    /\ (NCalls >= 1 /\ Last.op = "unmap") =>
          IF HasMappedAddress(pre.sa)
          THEN Last.ret
          ELSE ~Last.ret /\ Unchanged
    /\ (NCalls >= 1 /\ Last.op = "map") =>
          IF IsV4(pre.sa)
          THEN Last.ret
          ELSE ~Last.ret /\ Unchanged

C10_Witness ==
    /\ NCalls >= 1 /\ Last.op = "set_port"
    /\ pre.sa[OffFamily] = AF_UNIX
    /\ WirePort(pre.sa) = 258
    /\ Last.arg = 65535
    /\ Last.ret = -1
    /\ WirePort(sa) = 258

(***************************************************************************)
(* SpecEqual: two records, addr_is_equal applied to them.                  *)
(***************************************************************************)
EqV4Addrs == { <<127, 0, 0, 1>>, <<127, 0, 0, 2>>, <<126, 0, 0, 1>> }

EqV6Addrs ==
    { Mapped(<<127, 0, 0, 1>>),
      A6({<<15, 1>>}),
      A6({<<0, 32>>, <<1, 1>>, <<15, 1>>}),
      A6({<<0, 32>>, <<1, 1>>, <<15, 2>>}),
      A6({<<0, 33>>, <<1, 1>>, <<15, 1>>}) }

EqPorts == {0, 1, 256}

EqRecords ==
    { MkSin(a, p, f) : a \in EqV4Addrs, p \in EqPorts, f \in Fills }
    \cup { MkSin6(a, p, f) : a \in EqV6Addrs, p \in EqPorts, f \in Fills }
    \cup OtherRecords

InitEqual ==
    /\ hostLE \in BOOLEAN
    /\ sa \in EqRecords
    /\ sb \in EqRecords
    /\ len = InitLen(sa)
    /\ pre = [sa |-> sa, len |-> len]
    /\ orig = [sa |-> sa, len |-> len]
    /\ calls = <<>>
    /\ log = <<>>
    /\ records = NoRecords
    /\ rpre = NoRecords
    /\ heap = NoHeap
    /\ rlast = NoCall

IsEqual ==
    \E compare_ports \in BOOLEAN :
        /\ Called("is_equal", compare_ports,
                  addr_is_equal(sa, sb, compare_ports, hostLE))
        /\ Warned(FALSE)
        /\ UNCHANGED <<sa, len>>

NextEqual == IsEqual

SpecEqual == InitEqual /\ [][NextEqual]_vars

(***************************************************************************)
(* C6.  addr_is_equal(a, b, true) is true exactly when a and b have the    *)
(* same supported family, the same address bytes and the same port;        *)
(* addr_is_equal(a, b, false) exactly when family and address bytes agree, *)
(* whatever the ports.  Records of different families, and any pair with   *)
(* a record of unknown family (a record against itself included), are      *)
(* never equal.                                                            *)
(***************************************************************************)
SameAddress(a, b) ==
    /\ a[OffFamily] = b[OffFamily]
    /\ \/ IsV4(a) /\ V4Bytes(a) = V4Bytes(b)
       \/ IsV6(a) /\ V6Bytes(a) = V6Bytes(b)

C6_IsEqual ==
    (NCalls >= 1 /\ Last.op = "is_equal") =>
        Last.ret = ( /\ SameAddress(sa, sb)
                     /\ Last.arg => WirePort(sa) = WirePort(sb) )

C6_Witness ==
    /\ NCalls >= 1 /\ Last.op = "is_equal"
    /\ Last.arg
    /\ IsV6(sa) /\ IsV6(sb)
    /\ V6Bytes(sa) = V6Bytes(sb)
    /\ WirePort(sa) = 1 /\ WirePort(sb) = 256
    /\ ~Last.ret

(***************************************************************************)
(* addr_resolve.  The platform resolver is the environment: a call to      *)
(* getaddrinfo either fails, handing out nothing, or succeeds and hands    *)
(* out a list of struct addrinfo that stays allocated until freeaddrinfo.  *)
(* heap[id] tells whether list id is allocated and how often it has been   *)
(* released since it was last handed out; id 0 is the null pointer.        *)
(***************************************************************************)
MaxCand == 2        \* candidates in one resolver answer
MaxCap == 2         \* slots of the caller's array
MaxResolves == 1    \* calls of addr_resolve on one array

EAI_NONAME == -2

\* One struct addrinfo: the family, the address bytes and their length.
Addrinfo(family, addr, addrlen) ==
    [ai_family |-> family, ai_addrlen |-> addrlen,
     ai_addr |-> [i \in 1 .. addrlen |-> addr[i]]]

Candidates ==
    { Addrinfo(AF_INET, MkSin(<<127, 0, 0, 1>>, 80, 0), SinLen),
      Addrinfo(AF_INET, MkSin(<<8, 8, 8, 8>>, 80, 0), Sin6Len),
      Addrinfo(AF_INET6, MkSin6(A6({<<15, 1>>}), 80, 0), Sin6Len),
      Addrinfo(AF_UNIX, [MkSin(<<47, 116, 109, 112>>, 0, 0)
                            EXCEPT ![OffFamily] = AF_UNIX], SinLen) }

RECURSIVE ListsOf(_)
ListsOf(n) ==
    IF n = 0 THEN {<<>>}
    ELSE LET shorter == ListsOf(n - 1) IN
         shorter \cup { Append(l, c) : l \in {x \in shorter : Len(x) = n - 1},
                                        c \in Candidates }

\* What the resolver may answer: an error, or success with a list.
Outcomes ==
    {[rc |-> EAI_NONAME, list |-> <<>>]}
    \cup {[rc |-> 0, list |-> l] : l \in ListsOf(MaxCand)}

FreshId(h) ==
    IF \E id \in DOMAIN h : ~h[id].live
    THEN CHOOSE id \in DOMAIN h :
            ~h[id].live /\ \A o \in DOMAIN h : ~h[o].live => id <= o
    ELSE Len(h) + 1

getaddrinfo(h, outcome) ==
    IF outcome.rc # 0
    THEN [rc |-> outcome.rc, ai_list |-> 0, heap |-> h]
    ELSE LET id == FreshId(h)
             cell == [live |-> TRUE, frees |-> 0]
         IN  [rc |-> 0, ai_list |-> id,
              heap |-> IF id \in DOMAIN h THEN [h EXCEPT ![id] = cell]
                       ELSE Append(h, cell)]

freeaddrinfo(h, ai_list) ==
    [h EXCEPT ![ai_list] = [live |-> FALSE, frees |-> @.frees + 1]]

\* The resolver's error branch.
\* The error branch returning a count of 0 and no warning.
resolve_failed_silent(recs, h) ==
    [ret |-> 0, records |-> recs, heap |-> h, log |-> <<>>]

resolve_failed(recs, h) ==
    [ret |-> -1, records |-> recs, heap |-> h, log |-> <<WarnResolve>>]

\* The body of the loop for one candidate ai: st is <<records, ret>>, records
\* the index of the next free slot, end the index one past the last.
\* The loop body without the records != end test.
resolve_step_unbounded(ai, st, end) ==
    IF ai.ai_family = AF_INET \/ ai.ai_family = AF_INET6
    THEN [ret |-> st.ret + 1,
          buf |-> [st.buf EXCEPT ![st.records] =
                     [addr |-> memcpy(@.addr, OffFamily,
                                      ai.ai_addr, OffFamily, ai.ai_addrlen),
                      len |-> ai.ai_addrlen]],
          records |-> st.records + 1]
    ELSE st

resolve_step(ai, st, end) ==
    IF ai.ai_family = AF_INET \/ ai.ai_family = AF_INET6
    THEN IF st.records # end
         THEN [ret |-> st.ret + 1,
               buf |-> [st.buf EXCEPT ![st.records] =
                          [addr |-> memcpy(@.addr, OffFamily,
                                           ai.ai_addr, OffFamily, ai.ai_addrlen),
                           len |-> ai.ai_addrlen]],
               records |-> st.records + 1]
         ELSE [st EXCEPT !.ret = @ + 1]
    ELSE st

RECURSIVE resolve_loop(_, _, _)
resolve_loop(ai, st, end) ==
    IF ai = <<>> THEN st
    ELSE resolve_loop(Tail(ai), resolve_step(Head(ai), st, end), end)

\* The return without freeaddrinfo.
resolve_release_none(h, ai_list) == h

resolve_release(h, ai_list) == freeaddrinfo(h, ai_list)

addr_resolve(recs, count, outcome, h) ==
    LET end == 1 + count
        g == getaddrinfo(h, outcome)
    IN  IF g.rc # 0 THEN resolve_failed(recs, g.heap)
        ELSE LET st == resolve_loop(outcome.list,
                                    [ret |-> 0, buf |-> recs, records |-> 1],
                                    end)
             IN  [ret |-> st.ret, records |-> st.buf,
                  heap |-> resolve_release(g.heap, g.ai_list), log |-> <<>>]

(***************************************************************************)
(* SpecResolve: a caller with an array of MaxCap records calls             *)
(* addr_resolve on it, with any count up to the array's size.              *)
(***************************************************************************)
PriorRecord(fill) == [addr |-> [i \in Offsets |-> fill], len |-> 0]

InitResolve ==
    /\ hostLE = TRUE
    /\ sa = NoRecord
    /\ sb = NoRecord
    /\ len = 0
    /\ pre = [sa |-> sa, len |-> len]
    /\ orig = [sa |-> sa, len |-> len]
    /\ calls = <<>>
    /\ log = <<>>
    /\ \E fill \in Fills : records = [i \in 1 .. MaxCap |-> PriorRecord(fill)]
    /\ rpre = records
    /\ heap = NoHeap
    /\ rlast = NoCall

Resolve ==
    \E count \in 0 .. MaxCap, outcome \in Outcomes :
        LET r == addr_resolve(records, count, outcome, heap) IN
        /\ rlast.n < MaxResolves
        /\ records' = r.records
        /\ rpre' = records
        /\ heap' = r.heap
        /\ log' = r.log
        /\ rlast' = [called |-> TRUE, n |-> rlast.n + 1, count |-> count,
                     rc |-> outcome.rc,
                     list |-> outcome.list, ret |-> r.ret, heap |-> heap]
        /\ UNCHANGED <<hostLE, sa, len, pre, orig, calls, sb>>

NextResolve == Resolve

SpecResolve == InitResolve /\ [][NextResolve]_vars

(***************************************************************************)
(* What the properties of addr_resolve speak of.                           *)
(***************************************************************************)
Succeeded == rlast.called /\ rlast.rc = 0

Failed == rlast.called /\ rlast.rc # 0

\* The IPv4/IPv6 candidates of the resolver's answer, in its order.
Matching ==
    SelectSeq(rlast.list, LAMBDA c : c.ai_family \in {AF_INET, AF_INET6})

Min(a, b) == IF a <= b THEN a ELSE b

Written == Min(Len(Matching), rlast.count)

\* Slot i holds candidate c: its bytes, its length, and past them what the
\* slot held before.
Holds(i, c) ==
    /\ records[i].len = c.ai_addrlen
    /\ \A j \in Offsets :
          records[i].addr[j] =
              IF j <= c.ai_addrlen THEN c.ai_addr[j] ELSE rpre[i].addr[j]

(***************************************************************************)
(* C2.  When the resolver succeeds, addr_resolve returns the number M of   *)
(* IPv4/IPv6 candidates of the resolver's list, for every capacity; it     *)
(* writes exactly min(M, capacity) records, the first min(M, capacity)     *)
(* IPv4/IPv6 candidates in the resolver's order, candidates of other       *)
(* families skipped; no slot at an index >= capacity is written.           *)
(***************************************************************************)
C2_ResolveCount ==
    Succeeded =>
        /\ rlast.ret = Len(Matching)
        /\ \A i \in 1 .. Written : Holds(i, Matching[i])
        /\ \A i \in (Written + 1) .. MaxCap : records[i] = rpre[i]

C2_Witness ==
    /\ Succeeded
    /\ rlast.count = 1
    /\ Len(rlast.list) = 2
    /\ rlast.list[1].ai_family = AF_UNIX
    /\ rlast.list[2].ai_family = AF_INET6
    /\ rlast.ret = 1
    /\ records[1].len = Sin6Len
    /\ records[2] = rpre[2]

(***************************************************************************)
(* C3.  When the resolver fails, addr_resolve returns a negative value,    *)
(* writes no record (every slot of the caller's array is as it was) and    *)
(* emits a warning.                                                        *)
(***************************************************************************)
C3_ResolveFailure ==
    Failed =>
        /\ rlast.ret < 0
        /\ records = rpre
        /\ log = <<WarnResolve>>

C3_Witness ==
    /\ Failed
    /\ rlast.count = MaxCap
    /\ rlast.ret = -1
    /\ Len(log) = 1

(***************************************************************************)
(* C4.  When addr_resolve returns, on the success path and on the failure  *)
(* path alike, no list the resolver handed out during the call is still    *)
(* allocated, and no list has been released more than once.                *)
(***************************************************************************)
C4_ResolverReleased ==
    rlast.called =>
        /\ \A id \in DOMAIN heap : ~heap[id].live /\ heap[id].frees = 1
        /\ Succeeded => Len(heap) >= 1
        /\ Failed => heap = rlast.heap

C4_Witness ==
    /\ Succeeded
    /\ Len(rlast.list) = 2
    /\ rlast.ret = 2
    /\ Len(heap) = 1
    /\ ~heap[1].live
    /\ heap[1].frees = 1

(***************************************************************************)
(* C5.  Every record addr_resolve writes has a length equal to             *)
(* addr_get_len of its family, whatever length the resolver reports for    *)
(* the candidate.                                                          *)
(***************************************************************************)
C5_LengthValidated ==
    Succeeded =>
        \A i \in 1 .. Written : records[i].len = addr_get_len(records[i].addr)

====
